---- MODULE Spec2Model ----
(***************************************************************************)
(* Brainfuck IR compiler and interpreter (src/src/main_ir.rs).             *)
(*                                                                         *)
(* Code::from turns a Vec<Opcode> into a Vec<IR> (run-length folding of    *)
(* > < + -, back-patched jump targets for [ and ]), and Interpreter::run   *)
(* executes the Vec<IR> on a growable byte tape.                           *)
(*                                                                         *)
(* Conventions of the model:                                               *)
(*  - indices (pc, ps, jump targets, jstack entries) are 0-based as in the *)
(*    source; At(s, i) reads the element with 0-based index i;             *)
(*  - a usize is kept modulo 2^64 in two's complement: a negative value v  *)
(*    of ps stands for the usize 2^64 + v (what `ps - x` leaves in a build *)
(*    without overflow checks when x > ps);                                *)
(*  - opcode::Code::from (line 87) lives in a file that is not part of     *)
(*    src/; its result, the Vec<Opcode> handed to Code::from on line 88,   *)
(*    is taken to be any sequence of opcodes;                              *)
(*  - stdout accepts every write; stdin is a finite byte stream.           *)
(***************************************************************************)
EXTENDS Integers, Sequences, FiniteSets, TLC

VARIABLES
    data,             \* Code::from: the Vec<Opcode> being compiled
    di,               \* Code::from: 1-based position of `for e in data`
    instrs,           \* Code::from: local `instrs`
    jstack,           \* Code::from: local `jstack`
    code,             \* run: `code`, the value Code::from returned
    stage,            \* "compile", "run", "ok", "err" (Err returned), "panic"
    err,              \* the error or panic message, "" when none
    overflow_checks,  \* build profile: TRUE = arithmetic overflow panics
    pc,               \* run: local `pc`
    ps,               \* run: local `ps`
    stack,            \* Interpreter.stack
    stdin,            \* the byte stream on standard input
    nread,            \* how many bytes of stdin have been consumed
    stdout            \* bytes written to standard output

vars == <<data, di, instrs, jstack, code, stage, err, overflow_checks,
          pc, ps, stack, stdin, nread, stdout>>

---------------------------------------------------------------------------
(* Bounds of the model *)

MaxLen == 3      \* every opcode sequence up to this length is compiled and run
MaxInput == 1    \* every stdin stream up to this length
MaxTape == 5     \* the tape is not grown beyond this many cells
MaxOut == 255      \* at most this many bytes are written
MaxRun == 257    \* longest run of one opcode in SpecRuns

---------------------------------------------------------------------------
(* Types *)

Opcode == {"SHR", "SHL", "ADD", "SUB", "PUTCHAR", "GETCHAR", "LB", "RB"}

SHR(x) == [op |-> "SHR", x |-> x]
SHL(x) == [op |-> "SHL", x |-> x]
ADD(x) == [op |-> "ADD", x |-> x]
SUB(x) == [op |-> "SUB", x |-> x]
PUTCHAR == [op |-> "PUTCHAR"]
GETCHAR == [op |-> "GETCHAR"]
JIZ(x) == [op |-> "JIZ", x |-> x]
JNZ(x) == [op |-> "JNZ", x |-> x]

U8 == 256

At(s, i) == s[i + 1]

NoCode == [some |-> FALSE, instrs |-> <<>>]
SomeCode(is) == [some |-> TRUE, instrs |-> is]

---------------------------------------------------------------------------
(* Code::from *)

LastIs(is, o) == Len(is) > 0 /\ is[Len(is)].op = o

\* `*x += 1` on a u32 count (lines 32, 38); 2^32 is out of reach of the bounds
IncCount(x) == x + 1

\* mutant of OverflowingInc: the count stops at 255 (saturating_add)
OverflowingInc_Saturating(x) == IF x = 255 THEN 255 ELSE x + 1

\* `x.overflowing_add(1).0` on a u8 count (lines 44-45, 51-52)
OverflowingInc(x) == (x + 1) % U8

\* mutant of PushSHR: every `>` is an instruction of its own
PushSHR_NoFold(is) == Append(is, SHR(1))

PushSHR(is) ==
    IF LastIs(is, "SHR")
    THEN [is EXCEPT ![Len(is)] = SHR(IncCount(is[Len(is)].x))]
    ELSE Append(is, SHR(1))

PushSHL(is) ==
    IF LastIs(is, "SHL")
    THEN [is EXCEPT ![Len(is)] = SHL(IncCount(is[Len(is)].x))]
    ELSE Append(is, SHL(1))

\* mutant of PushADD: a full count starts a new instruction (checked_add)
PushADD_SplitOnOverflow(is) ==
    IF LastIs(is, "ADD") /\ is[Len(is)].x < 255
    THEN [is EXCEPT ![Len(is)] = ADD(is[Len(is)].x + 1)]
    ELSE Append(is, ADD(1))

PushADD(is) ==
    IF LastIs(is, "ADD")
    THEN [is EXCEPT ![Len(is)] = ADD(OverflowingInc(is[Len(is)].x))]
    ELSE Append(is, ADD(1))

PushSUB(is) ==
    IF LastIs(is, "SUB")
    THEN [is EXCEPT ![Len(is)] = SUB(OverflowingInc(is[Len(is)].x))]
    ELSE Append(is, SUB(1))

\* `(instrs.len() - 1) as u32`: the index of the instruction just pushed
LastIndex(instrs_len) == instrs_len - 1

\* mutant of CloseLoop: the JNZ is pushed, the JIZ is not back-patched
CloseLoop_NoBackPatch(is, j) == Append(is, JNZ(j))

\* lines 64-69: push JNZ(j), then overwrite the JIZ at index j
CloseLoop(is, j) ==
    LET pushed == Append(is, JNZ(j))
    IN  [pushed EXCEPT ![j + 1] = JIZ(LastIndex(Len(pushed)))]

Compiling(e) == stage = "compile" /\ di <= Len(data) /\ data[di] = e

RunVarsUnchanged == UNCHANGED <<pc, ps, stack, stdin, nread, stdout>>

Emit(is) ==
    /\ instrs' = is
    /\ di' = di + 1
    /\ UNCHANGED <<data, jstack, code, stage, err, overflow_checks>>
    /\ RunVarsUnchanged

CompileSHR == Compiling("SHR") /\ Emit(PushSHR(instrs))

CompileSHL == Compiling("SHL") /\ Emit(PushSHL(instrs))

CompileADD == Compiling("ADD") /\ Emit(PushADD(instrs))

CompileSUB == Compiling("SUB") /\ Emit(PushSUB(instrs))

CompilePUTCHAR == Compiling("PUTCHAR") /\ Emit(Append(instrs, PUTCHAR))

CompileGETCHAR == Compiling("GETCHAR") /\ Emit(Append(instrs, GETCHAR))

CompileLB ==
    /\ Compiling("LB")
    /\ instrs' = Append(instrs, JIZ(0))
    /\ jstack' = Append(jstack, LastIndex(Len(instrs')))
    /\ di' = di + 1
    /\ UNCHANGED <<data, code, stage, err, overflow_checks>>
    /\ RunVarsUnchanged

\* mutant of CompileRB: a loop-end with nothing to pop is skipped
CompileRB_SkipUnmatched ==
    /\ Compiling("RB")
    /\ IF jstack = <<>>
       THEN UNCHANGED <<instrs, jstack, stage, err>>
       ELSE /\ instrs' = CloseLoop(instrs, jstack[Len(jstack)])
            /\ jstack' = SubSeq(jstack, 1, Len(jstack) - 1)
            /\ UNCHANGED <<stage, err>>
    /\ di' = di + 1
    /\ UNCHANGED <<data, code, overflow_checks>>
    /\ RunVarsUnchanged

\* mutant of CompileRB: on an unmatched loop-end the instructions compiled so
\* far are run
CompileRB_RunsPrefix ==
    /\ Compiling("RB")
    /\ IF jstack = <<>>
       THEN /\ code' = SomeCode(instrs)
            /\ stage' = "run"
            /\ UNCHANGED <<instrs, jstack, di>>
       ELSE /\ instrs' = CloseLoop(instrs, jstack[Len(jstack)])
            /\ jstack' = SubSeq(jstack, 1, Len(jstack) - 1)
            /\ di' = di + 1
            /\ UNCHANGED <<stage, code>>
    /\ UNCHANGED <<data, err, overflow_checks>>
    /\ RunVarsUnchanged

\* `jstack.pop().ok_or("pop from empty list")?`: on Err the locals are dropped
\* and run() returns the error from line 88
CompileRB ==
    /\ Compiling("RB")
    /\ IF jstack = <<>>
       THEN /\ stage' = "err"
            /\ err' = "pop from empty list"
            /\ instrs' = <<>>
            /\ UNCHANGED <<jstack, di>>
       ELSE IF At(instrs, jstack[Len(jstack)]).op = "JIZ"
       THEN /\ instrs' = CloseLoop(instrs, jstack[Len(jstack)])
            /\ jstack' = SubSeq(jstack, 1, Len(jstack) - 1)
            /\ di' = di + 1
            /\ UNCHANGED <<stage, err>>
       ELSE /\ stage' = "panic"
            /\ err' = "unreachable"
            /\ UNCHANGED <<instrs, jstack, di>>
    /\ UNCHANGED <<data, code, overflow_checks>>
    /\ RunVarsUnchanged

\* mutant of CompileDone: a loop-start still open at the end is an error
CompileDone_RejectsOpenLoops ==
    /\ stage = "compile"
    /\ di > Len(data)
    /\ IF jstack = <<>>
       THEN /\ code' = SomeCode(instrs)
            /\ stage' = "run"
            /\ UNCHANGED err
       ELSE /\ code' = NoCode
            /\ stage' = "err"
            /\ err' = "unclosed loop"
    /\ instrs' = <<>>
    /\ jstack' = <<>>
    /\ pc' = 0
    /\ ps' = 0
    /\ UNCHANGED <<data, di, overflow_checks, stack, stdin, nread, stdout>>

\* line 74 `Ok(Code { instrs })`, then lines 90-92 of run()
CompileDone ==
    /\ stage = "compile"
    /\ di > Len(data)
    /\ code' = SomeCode(instrs)
    /\ instrs' = <<>>
    /\ jstack' = <<>>
    /\ stage' = "run"
    /\ pc' = 0
    /\ ps' = 0
    /\ UNCHANGED <<data, di, err, overflow_checks, stack, stdin, nread, stdout>>

---------------------------------------------------------------------------
(* Interpreter::run, lines 94-135: one action per arm of the match *)

\* `self.stack[ps]` is checked: it panics unless ps < self.stack.len()
InBounds(p, st) == 0 <= p /\ p < Len(st)

Cell(p, st) == At(st, p)

\* mutant of SetCell: the store goes to the first cell of the tape
SetCell_First(p, st, v) == [st EXCEPT ![1] = v]

SetCell(p, st, v) == [st EXCEPT ![p + 1] = v]

Executing(o) ==
    /\ stage = "run"
    /\ pc < Len(code.instrs)
    /\ At(code.instrs, pc).op = o

Arg == At(code.instrs, pc).x

CompileVarsUnchanged == UNCHANGED <<data, di, instrs, jstack, code, overflow_checks>>

Panic(msg) ==
    /\ stage' = "panic"
    /\ err' = msg
    /\ UNCHANGED <<pc, ps, stack, stdin, nread, stdout>>

\* `ps - x as usize` (line 99) overflows when x > ps
SubOverflows(p, x) == 0 <= p /\ p < x

\* mutant of ShlValue: the subtraction without the test for zero
ShlValue_NoZeroTest(p, x) == p - x

\* line 99: `if ps == 0 { 0 } else { ps - x as usize }`, the value when the
\* subtraction does not panic; a negative result is the wrapped usize
ShlValue(p, x) == IF p = 0 THEN 0 ELSE p - x

RunSHL ==
    /\ Executing("SHL")
    /\ IF ps # 0 /\ SubOverflows(ps, Arg) /\ overflow_checks
       THEN Panic("attempt to subtract with overflow")
       ELSE /\ ps' = ShlValue(ps, Arg)
            /\ pc' = pc + 1
            /\ UNCHANGED <<stage, err, stack, stdin, nread, stdout>>
    /\ CompileVarsUnchanged

Zeros(n) == [i \in 1..n |-> 0]

\* lines 102-107: push `ps - len + 1` zeros when ps >= len
Grow(st, p) ==
    IF p >= Len(st) THEN st \o Zeros(p - Len(st) + 1) ELSE st

\* lines 100-108; a wrapped ps compares >= len and asks for about 2^64 cells,
\* which no allocator grants
RunSHR ==
    /\ Executing("SHR")
    /\ IF ps + Arg < 0
       THEN Panic("capacity overflow")
       ELSE /\ ps + Arg < MaxTape
            /\ ps' = ps + Arg
            /\ stack' = Grow(stack, ps + Arg)
            /\ pc' = pc + 1
            /\ UNCHANGED <<stage, err, stdin, nread, stdout>>
    /\ CompileVarsUnchanged

\* mutant of OverflowingAdd: the sum stops at 255 (saturating_add)
OverflowingAdd_Saturating(c, x) == IF c + x > 255 THEN 255 ELSE c + x

\* `overflowing_add(x).0` (line 110) on u8
OverflowingAdd(c, x) == (c + x) % U8

\* `overflowing_sub(x).0` (line 113) on u8
OverflowingSub(c, x) == (c - x) % U8

RunADD ==
    /\ Executing("ADD")
    /\ IF InBounds(ps, stack)
       THEN /\ stack' = SetCell(ps, stack, OverflowingAdd(Cell(ps, stack), Arg))
            /\ pc' = pc + 1
            /\ UNCHANGED <<stage, err, ps, stdin, nread, stdout>>
       ELSE Panic("index out of bounds")
    /\ CompileVarsUnchanged

RunSUB ==
    /\ Executing("SUB")
    /\ IF InBounds(ps, stack)
       THEN /\ stack' = SetCell(ps, stack, OverflowingSub(Cell(ps, stack), Arg))
            /\ pc' = pc + 1
            /\ UNCHANGED <<stage, err, ps, stdin, nread, stdout>>
       ELSE Panic("index out of bounds")
    /\ CompileVarsUnchanged

\* mutant of RunPUTCHAR: the byte is put in front of the bytes already written
RunPUTCHAR_Prepends ==
    /\ Executing("PUTCHAR")
    /\ IF InBounds(ps, stack)
       THEN /\ Len(stdout) < MaxOut
            /\ stdout' = <<Cell(ps, stack)>> \o stdout
            /\ pc' = pc + 1
            /\ UNCHANGED <<stage, err, ps, stack, stdin, nread>>
       ELSE Panic("index out of bounds")
    /\ CompileVarsUnchanged

RunPUTCHAR ==
    /\ Executing("PUTCHAR")
    /\ IF InBounds(ps, stack)
       THEN /\ Len(stdout) < MaxOut
            /\ stdout' = Append(stdout, Cell(ps, stack))
            /\ pc' = pc + 1
            /\ UNCHANGED <<stage, err, ps, stack, stdin, nread>>
       ELSE Panic("index out of bounds")
    /\ CompileVarsUnchanged

\* mutant of RunGETCHAR: end of input stores 0 and the run goes on
RunGETCHAR_EofStoresZero ==
    /\ Executing("GETCHAR")
    /\ InBounds(ps, stack)
    /\ IF nread >= Len(stdin)
       THEN /\ stack' = SetCell(ps, stack, 0)
            /\ UNCHANGED nread
       ELSE /\ stack' = SetCell(ps, stack, stdin[nread + 1])
            /\ nread' = nread + 1
    /\ pc' = pc + 1
    /\ UNCHANGED <<stage, err, ps, stdin, stdout>>
    /\ CompileVarsUnchanged

\* lines 118-122: read_exact fails at end of input and `?` returns the error;
\* otherwise one byte is consumed and then stored through self.stack[ps]
RunGETCHAR ==
    /\ Executing("GETCHAR")
    /\ IF nread >= Len(stdin)
       THEN /\ stage' = "err"
            /\ err' = "failed to fill whole buffer"
            /\ UNCHANGED <<pc, ps, stack, nread, stdout>>
       ELSE IF InBounds(ps, stack)
       THEN /\ nread' = nread + 1
            /\ stack' = SetCell(ps, stack, stdin[nread + 1])
            /\ pc' = pc + 1
            /\ UNCHANGED <<stage, err, ps, stdout>>
       ELSE /\ nread' = nread + 1
            /\ stage' = "panic"
            /\ err' = "index out of bounds"
            /\ UNCHANGED <<pc, ps, stack, stdout>>
    /\ UNCHANGED stdin
    /\ CompileVarsUnchanged

\* mutant of JizNext: a taken jump lands on its target
JizNext_LandsOnTarget(c, x, p) == IF c = 0 THEN x ELSE p + 1

\* lines 123-127 and 134: pc = x when the cell is zero, then pc += 1
JizNext(c, x, p) == IF c = 0 THEN x + 1 ELSE p + 1

\* mutant of JnzNext: the jump is taken on a zero cell
JnzNext_OnZero(c, x, p) == IF c = 0 THEN x + 1 ELSE p + 1

\* lines 128-132 and 134: pc = x when the cell is not zero, then pc += 1
JnzNext(c, x, p) == IF c # 0 THEN x + 1 ELSE p + 1

RunJIZ ==
    /\ Executing("JIZ")
    /\ IF InBounds(ps, stack)
       THEN /\ pc' = JizNext(Cell(ps, stack), Arg, pc)
            /\ UNCHANGED <<stage, err, ps, stack, stdin, nread, stdout>>
       ELSE Panic("index out of bounds")
    /\ CompileVarsUnchanged

RunJNZ ==
    /\ Executing("JNZ")
    /\ IF InBounds(ps, stack)
       THEN /\ pc' = JnzNext(Cell(ps, stack), Arg, pc)
            /\ UNCHANGED <<stage, err, ps, stack, stdin, nread, stdout>>
       ELSE Panic("index out of bounds")
    /\ CompileVarsUnchanged

\* mutant of RunBreak: the loop is left only when pc > code_len
RunBreak_OffByOne ==
    /\ stage = "run"
    /\ pc > Len(code.instrs)
    /\ stage' = "ok"
    /\ UNCHANGED <<err, pc, ps, stack, stdin, nread, stdout>>
    /\ CompileVarsUnchanged

\* lines 95-97 and 136: `if pc >= code_len { break; }`, then Ok(())
RunBreak ==
    /\ stage = "run"
    /\ pc >= Len(code.instrs)
    /\ stage' = "ok"
    /\ UNCHANGED <<err, pc, ps, stack, stdin, nread, stdout>>
    /\ CompileVarsUnchanged

---------------------------------------------------------------------------
(* Inputs *)

SeqsUpTo(S, n) == UNION {[1..k -> S] : k \in 0..n}

Repeat(e, n) == [i \in 1..n |-> e]

\* the loop of the second end-to-end scenario: [-.]
DecOutLoop == <<"LB", "SUB", "PUTCHAR", "RB">>

\* programs longer than MaxLen that are compiled and run as well
Scenarios ==
    { <<"ADD", "ADD", "ADD", "PUTCHAR">>,                       \* +++.
      DecOutLoop,                                               \* [-.]
      <<"ADD">> \o DecOutLoop,                                  \* +[-.]
      <<"ADD", "ADD">> \o DecOutLoop,                           \* ++[-.]
      <<"GETCHAR">> \o DecOutLoop,                              \* ,[-.]
      <<"LB", "LB", "RB", "LB", "RB", "RB">>,                   \* [[][]]
      <<"ADD", "LB", "LB", "SUB", "RB", "RB">>,                 \* +[[-]]
      <<"ADD", "LB", "SHR", "ADD", "RB">>,                      \* +[>+]
      <<"SHR", "SHL", "SHL", "SHL", "SHR">>,                    \* ><<<>
      <<"PUTCHAR", "LB", "RB", "RB", "PUTCHAR">>,               \* .[]].
      <<"SHR", "ADD", "SHR", "SHL", "SHL", "SHL", "PUTCHAR">> } \* >+><<<.

InputBytes == {0, 2, 255}

Programs == SeqsUpTo(Opcode, MaxLen) \cup Scenarios

Streams == SeqsUpTo(InputBytes, MaxInput)

\* Interpreter::new() (line 84) and the entry of run() on `d` with stdin `s`
Start(d, s, oc) ==
    /\ data = d
    /\ di = 1
    /\ instrs = <<>>
    /\ jstack = <<>>
    /\ code = NoCode
    /\ stage = "compile"
    /\ err = ""
    /\ overflow_checks = oc
    /\ pc = 0
    /\ ps = 0
    /\ stack = <<0>>
    /\ stdin = s
    /\ nread = 0
    /\ stdout = <<>>

Init == \E d \in Programs, s \in Streams, oc \in BOOLEAN : Start(d, s, oc)

Compile ==
    \/ CompileSHR
    \/ CompileSHL
    \/ CompileADD
    \/ CompileSUB
    \/ CompilePUTCHAR
    \/ CompileGETCHAR
    \/ CompileLB
    \/ CompileRB
    \/ CompileDone

Execute ==
    \/ RunSHL
    \/ RunSHR
    \/ RunADD
    \/ RunSUB
    \/ RunPUTCHAR
    \/ RunGETCHAR
    \/ RunJIZ
    \/ RunJNZ
    \/ RunBreak

Next == Compile \/ Execute

Spec == Init /\ [][Next]_vars

---------------------------------------------------------------------------
(* Long runs of one opcode: + or - repeated up to MaxRun times, alone or    *)
(* followed by an output.                                                   *)

RunPrograms ==
    {Repeat(e, n) \o suf :
        e \in {"ADD", "SUB"}, n \in 1..MaxRun, suf \in {<<>>, <<"PUTCHAR">>}}

InitRuns == \E d \in RunPrograms, oc \in BOOLEAN : Start(d, <<>>, oc)

NextRuns ==
    \/ CompileADD
    \/ CompileSUB
    \/ CompilePUTCHAR
    \/ CompileDone
    \/ RunADD
    \/ RunSUB
    \/ RunPUTCHAR
    \/ RunBreak

SpecRuns == InitRuns /\ [][NextRuns]_vars

---------------------------------------------------------------------------
(* One ADD or SUB instruction about to execute on a cell of any value: the  *)
(* state of the program `,` followed by n times + (or -) after the input    *)
(* byte c has been stored, for every count and every byte.                  *)

Byte == 0..(U8 - 1)

ArithStart(e, n, c, oc) ==
    /\ data = <<"GETCHAR">> \o Repeat(e, n)
    /\ di = n + 2
    /\ instrs = <<>>
    /\ jstack = <<>>
    /\ code = SomeCode(<<GETCHAR, [op |-> e, x |-> n % U8]>>)
    /\ stage = "run"
    /\ err = ""
    /\ overflow_checks = oc
    /\ pc = 1
    /\ ps = 0
    /\ stack = <<c>>
    /\ stdin = <<c>>
    /\ nread = 1
    /\ stdout = <<>>

InitArith ==
    \E e \in {"ADD", "SUB"}, n \in 1..U8, c \in Byte, oc \in BOOLEAN :
        ArithStart(e, n, c, oc)

NextArith ==
    \/ RunADD
    \/ RunSUB
    \/ RunBreak

SpecArith == InitArith /\ [][NextArith]_vars

---------------------------------------------------------------------------
(* The loop [-.] entered with every cell value: after up to MaxLen times +, *)
(* or after `,` with every one-byte stdin stream (and the empty one).  The  *)
(* interpreter is one sequential loop that always takes its next step,      *)
(* which is the weak fairness of NextLoop.                                  *)

LoopPrograms ==
    {pre \o DecOutLoop :
        pre \in {Repeat("ADD", j) : j \in 0..MaxLen} \cup {<<"GETCHAR">>}}

InitLoop ==
    \E d \in LoopPrograms, s \in SeqsUpTo(Byte, 1), oc \in BOOLEAN :
        Start(d, s, oc)

NextLoop ==
    \/ CompileADD
    \/ CompileSUB
    \/ CompilePUTCHAR
    \/ CompileGETCHAR
    \/ CompileLB
    \/ CompileRB
    \/ CompileDone
    \/ RunADD
    \/ RunSUB
    \/ RunPUTCHAR
    \/ RunGETCHAR
    \/ RunJIZ
    \/ RunJNZ
    \/ RunBreak

SpecLoop == InitLoop /\ [][NextLoop]_vars /\ WF_vars(NextLoop)

---------------------------------------------------------------------------
(* Bracket structure of an opcode sequence and of an instruction list *)

Max(a, b) == IF a >= b THEN a ELSE b

\* number of loop-starts minus number of loop-ends among the first k opcodes
Depth(d, k) ==
    Cardinality({i \in 1..k : d[i] = "LB"}) - Cardinality({i \in 1..k : d[i] = "RB"})

Balanced(d) ==
    /\ \A k \in 1..Len(d) : Depth(d, k) >= 0
    /\ Depth(d, Len(d)) = 0

HasUnmatchedRB(d) == \E k \in 1..Len(d) : Depth(d, k) < 0

\* 1-based position of the first loop-end that has no open loop-start
FirstUnmatchedRB(d) ==
    CHOOSE k \in 1..Len(d) :
        Depth(d, k) < 0 /\ \A m \in 1..(k - 1) : Depth(d, m) >= 0

\* position of the loop-end that closes the loop-start at position i
MatchOf(d, i) ==
    CHOOSE j \in (i + 1)..Len(d) :
        /\ d[j] = "RB"
        /\ Depth(d, j) = Depth(d, i - 1)
        /\ \A m \in i..(j - 1) : Depth(d, m) > Depth(d, i - 1)

\* how many brackets there are among the first k opcodes
BracketRank(d, k) == Cardinality({i \in 1..k : d[i] \in {"LB", "RB"}})

Jumps(is) == {i \in 0..(Len(is) - 1) : At(is, i).op \in {"JIZ", "JNZ"}}

\* how many jump instructions there are at indices 0..i
JumpRank(is, i) == Cardinality({j \in Jumps(is) : j <= i})

\* the index of the jump instruction compiled from the bracket at position k
JumpOf(d, is, k) == CHOOSE i \in Jumps(is) : JumpRank(is, i) = BracketRank(d, k)

---------------------------------------------------------------------------
(* C1: for every balanced opcode sequence Code::from returns Ok, every JIZ  *)
(* at index i targets an index j > i holding JNZ(i), every JNZ is the       *)
(* partner of exactly one JIZ, and the pairs are the bracket pairs of the   *)
(* input (the k-th bracket of the input is the k-th jump of the list).      *)
C1_BalancedCompilesToPairedJumps ==
    (stage # "compile" /\ Balanced(data)) =>
        /\ code.some
        /\ ~(stage = "err" /\ err = "pop from empty list")
        /\ LET is == code.instrs
           IN  /\ \A i \in Jumps(is) :
                     At(is, i).op = "JIZ" =>
                        /\ At(is, i).x > i
                        /\ At(is, i).x < Len(is)
                        /\ At(is, At(is, i).x) = JNZ(i)
               /\ \A j \in Jumps(is) :
                     At(is, j).op = "JNZ" =>
                        Cardinality({i \in Jumps(is) :
                            At(is, i) = JIZ(j) /\ At(is, j).x = i}) = 1
               /\ Cardinality(Jumps(is)) = BracketRank(data, Len(data))
               /\ \A k \in 1..Len(data) :
                     /\ data[k] = "LB" =>
                          /\ At(is, JumpOf(data, is, k)).op = "JIZ"
                          /\ At(is, JumpOf(data, is, k)).x =
                                JumpOf(data, is, MatchOf(data, k))
                     /\ data[k] = "RB" =>
                          At(is, JumpOf(data, is, k)).op = "JNZ"

\* a compiled program with a loop nested in a loop and two loops in sequence
C1_Witness ==
    /\ code.some
    /\ Balanced(data)
    /\ \E i \in Jumps(code.instrs) :
          At(code.instrs, i).op = "JIZ" /\ At(code.instrs, i).x > i + 3
    /\ \E i \in Jumps(code.instrs) :
          /\ At(code.instrs, i).op = "JNZ"
          /\ i + 1 < Len(code.instrs)
          /\ At(code.instrs, i + 1).op = "JIZ"

---------------------------------------------------------------------------
(* C2: for every opcode sequence with a loop-end that has no open           *)
(* loop-start, Code::from stops at the first such loop-end with the error   *)
(* "pop from empty list" and returns no instruction list, whatever follows. *)
C2_UnmatchedLoopEndFails ==
    HasUnmatchedRB(data) =>
        /\ stage \in {"compile", "err"}
        /\ code = NoCode
        /\ di <= FirstUnmatchedRB(data)
        /\ stage = "err" =>
              /\ err = "pop from empty list"
              /\ di = FirstUnmatchedRB(data)
              /\ instrs = <<>>
        /\ (stage = "compile" /\ di = FirstUnmatchedRB(data)) =>
              ENABLED CompileRB

\* compilation has failed at a loop-end that is preceded by a closed loop and
\* followed by more opcodes
C2_Witness ==
    /\ stage = "err"
    /\ err = "pop from empty list"
    /\ di < Len(data)
    /\ \E k \in 1..(di - 1) : data[k] = "LB"

---------------------------------------------------------------------------
(* C3: executing SHL(n) from any pointer p sets the pointer to max(0, p-n): *)
(* the run does not fail and the pointer is never negative or wrapped.      *)
(* Line 99 clamps only when p = 0; for 0 < p < n the subtraction overflows. *)
C3_MoveLeftSaturates ==
    [][Executing("SHL") =>
          /\ stage' = "run"
          /\ ps' = Max(0, ps - Arg)
          /\ ps' >= 0]_vars

---------------------------------------------------------------------------
(* C4: with the pointer at 0, SHL of any count leaves the pointer at 0 and  *)
(* the tape unchanged, raises no error, and execution goes on with the next *)
(* instruction.                                                             *)
C4_MoveLeftAtZeroIsNoOp ==
    [][(Executing("SHL") /\ ps = 0) =>
          /\ ps' = 0
          /\ stack' = stack
          /\ stage' = "run"
          /\ err' = err
          /\ pc' = pc + 1
          /\ stdout' = stdout
          /\ nread' = nread]_vars

\* the first instruction was SHL(2) or more, executed on the fresh tape
C4_Witness ==
    /\ stage = "run"
    /\ pc = 1
    /\ At(code.instrs, 0).op = "SHL"
    /\ At(code.instrs, 0).x >= 2
    /\ ps = 0
    /\ stack = <<0>>

---------------------------------------------------------------------------
(* C5: executing SHR(n) from pointer q on a tape of length L sets the       *)
(* pointer to q + n and the tape length to max(L, q + n + 1); old cells     *)
(* keep their values and new cells are 0.                                   *)
MoveRightEffect ==
    /\ stage' = "run"
    /\ ps' = ps + Arg
    /\ pc' = pc + 1
    /\ Len(stack') = Max(Len(stack), ps' + 1)
    /\ \A i \in 1..Len(stack) : stack'[i] = stack[i]
    /\ \A i \in (Len(stack) + 1)..Len(stack') : stack'[i] = 0

\* C5: every SHR step has the effect above, from every pointer the run reaches
C5_MoveRightGrowsTape == [][Executing("SHR") => MoveRightEffect]_vars

\* what holds of SHR on the code: the same, from a pointer inside the tape
MoveRightFromValidPointer ==
    [][(Executing("SHR") /\ InBounds(ps, stack)) => MoveRightEffect]_vars

---------------------------------------------------------------------------
(* C6: ADD(n) sets the current cell to (cell + n) mod 256 and SUB(n) sets   *)
(* it to (cell - n) mod 256, for every cell value and every count in        *)
(* 0..255; 255 + 1 gives 0 and 0 - 1 gives 255, and neither is an error.    *)
(* The current cell is the one under a pointer that is inside the tape.     *)
AddMod256(c, n) == IF c + n >= 256 THEN c + n - 256 ELSE c + n

SubMod256(c, n) == IF c >= n THEN c - n ELSE c - n + 256

\* C6: every ADD and SUB step on a cell computes modulo 256 and is no error
C6_IncDecWrapMod256 ==
    [][/\ (Executing("ADD") /\ InBounds(ps, stack)) =>
            /\ stage' = "run"
            /\ err' = err
            /\ pc' = pc + 1
            /\ stack' = [stack EXCEPT ![ps + 1] = AddMod256(stack[ps + 1], Arg)]
            /\ (stack[ps + 1] = 255 /\ Arg = 1) => stack'[ps + 1] = 0
       /\ (Executing("SUB") /\ InBounds(ps, stack)) =>
            /\ stage' = "run"
            /\ err' = err
            /\ pc' = pc + 1
            /\ stack' = [stack EXCEPT ![ps + 1] = SubMod256(stack[ps + 1], Arg)]
            /\ (stack[ps + 1] = 0 /\ Arg = 1) => stack'[ps + 1] = 255]_vars

\* the byte 255 was read into the cell and ADD(1) has just turned it into 0
C6_Witness ==
    /\ stage = "run"
    /\ pc = 2
    /\ At(code.instrs, 0) = GETCHAR
    /\ At(code.instrs, 1) = ADD(1)
    /\ nread = 1
    /\ stdin[1] = 255
    /\ ps = 0
    /\ stack = <<0>>

---------------------------------------------------------------------------
(* C7: a run of N >= 1 consecutive + (or -) compiles to exactly one ADD     *)
(* (or SUB) whose count is N mod 256, so 256 of them give count 0; the      *)
(* compilation neither fails nor splits the run at the 8-bit overflow.      *)

\* length of the run of equal opcodes that starts the sequence
LeadRun(d) ==
    LET others == {k \in 1..Len(d) : d[k] # d[1]}
    IN  IF others = {}
        THEN Len(d)
        ELSE (CHOOSE k \in others : \A m \in others : k <= m) - 1

\* C7: the leading run of N + (or -) is one instruction of count N mod 256
C7_RunFoldsToCountMod256 ==
    (Len(data) >= 1 /\ data[1] \in {"ADD", "SUB"}) =>
        LET N == LeadRun(data)
        IN  /\ (stage = "compile" /\ 1 < di /\ di <= N + 1) =>
                  instrs = <<[op |-> data[1], x |-> (di - 1) % 256]>>
            /\ (stage = "compile" /\ di <= N) => ENABLED Compile
            /\ di <= N => stage \notin {"err", "panic"}
            /\ N = Len(data) => stage \notin {"err", "panic"}
            /\ code.some =>
                  /\ At(code.instrs, 0) = [op |-> data[1], x |-> N % 256]
                  /\ Len(code.instrs) > 1 => At(code.instrs, 1).op # data[1]
                  /\ N = Len(data) => Len(code.instrs) = 1

\* 256 increments and nothing else have been compiled to the one ADD(0)
C7_Witness ==
    /\ code.some
    /\ Len(data) = 256
    /\ \A i \in 1..Len(data) : data[i] = "ADD"
    /\ code.instrs = <<ADD(0)>>

---------------------------------------------------------------------------
(* C8: N times + followed by one output, run on the fresh tape, writes      *)
(* exactly one byte, N mod 256 (3 for N = 3), and ends normally; the byte   *)
(* is the cell value that N separate ADD(1) instructions produce.           *)

IsIncsThenOutput(d) ==
    /\ Len(d) >= 2
    /\ d[Len(d)] = "PUTCHAR"
    /\ \A i \in 1..(Len(d) - 1) : d[i] = "ADD"

\* the cell after n executions of ADD(1)
RECURSIVE IncTimes(_, _)
IncTimes(c, n) == IF n = 0 THEN c ELSE IncTimes(OverflowingAdd(c, 1), n - 1)

\* C8: N times + and an output write the one byte N mod 256 and end normally
C8_IncsThenOutputWritesNMod256 ==
    IsIncsThenOutput(data) =>
        LET N == Len(data) - 1
        IN  /\ stage \notin {"err", "panic"}
            /\ stage \in {"compile", "run"} => ENABLED Next
            /\ Len(stdout) <= 1
            /\ stdout # <<>> => (stage = "ok" \/ (stage = "run" /\ pc = Len(code.instrs)))
            /\ stage = "ok" =>
                  /\ stdout = <<N % 256>>
                  /\ stdout = <<IncTimes(0, N)>>
                  /\ N = 3 => stdout = <<3>>
                  /\ stack = <<N % 256>>
                  /\ ps = 0

\* 256 increments and an output have run to the end and written the byte 0
C8_Witness ==
    /\ stage = "ok"
    /\ IsIncsThenOutput(data)
    /\ Len(data) = 257
    /\ stdout = <<0>>

---------------------------------------------------------------------------
(* C9: the loop [-.] entered with the current cell at k writes exactly the  *)
(* k bytes k-1, k-2, ..., 0 in this order, leaves the loop with the cell at *)
(* 0 and the run ends normally; k = 2 (++[-.]) writes 1, 0; for k = 0 the   *)
(* body is never executed and nothing is written.                           *)

IsPrefix(s, t) == Len(s) <= Len(t) /\ \A i \in 1..Len(s) : s[i] = t[i]

CountDown(k) == [i \in 1..k |-> k - i]

\* the program is [-.] after some +, or after `,` with a byte to read
EntersDecOutLoop ==
    /\ Len(data) >= 4
    /\ SubSeq(data, Len(data) - 3, Len(data)) = DecOutLoop
    /\ \/ \A i \in 1..(Len(data) - 4) : data[i] = "ADD"
       \/ Len(data) = 5 /\ data[1] = "GETCHAR" /\ stdin # <<>>

\* the value of the cell when the loop is entered
EntryValue == IF data[1] = "GETCHAR" THEN stdin[1] ELSE Len(data) - 4

\* what holds in every state of such a run
C9_LoopSafety ==
    EntersDecOutLoop =>
        LET k == EntryValue
            body == (Len(code.instrs) - 3)..(Len(code.instrs) - 1)
        IN  /\ stage \notin {"err", "panic"}
            /\ IsPrefix(stdout, CountDown(k))
            /\ (k = 0 /\ stage = "run") => pc \notin body
            /\ stage = "ok" =>
                  /\ stdout = CountDown(k)
                  /\ stack = <<0>>
                  /\ ps = 0
                  /\ pc = Len(code.instrs)
                  /\ k = 2 => stdout = <<1, 0>>
                  /\ k = 0 => stdout = <<>>

\* C9: the loop [-.] entered at k writes k-1, ..., 0 and the run ends normally
C9_DecOutLoopCountsDown ==
    /\ []C9_LoopSafety
    /\ EntersDecOutLoop ~> (stage = "ok")

\* ++[-.] has run to its end and written 1, 0
C9_Witness ==
    /\ stage = "ok"
    /\ data = <<"ADD", "ADD">> \o DecOutLoop
    /\ stdout = <<1, 0>>
    /\ stack = <<0>>

---------------------------------------------------------------------------
(* C10: when GETCHAR executes and stdin has no byte left, the run ends at   *)
(* once with an error: pc stays at the GETCHAR, the cell and the rest of    *)
(* the tape are untouched, no later instruction is executed and no further  *)
(* byte is written.                                                         *)
C10_InputAtEofAborts ==
    [][/\ (Executing("GETCHAR") /\ nread >= Len(stdin)) =>
            /\ stage' = "err"
            /\ err' = "failed to fill whole buffer"
            /\ pc' = pc
            /\ ps' = ps
            /\ stack' = stack
            /\ stdout' = stdout
            /\ nread' = nread
       /\ stage = "err" => UNCHANGED vars]_vars

\* the run has failed at a GETCHAR that follows an output and is followed by
\* another instruction
C10_Witness ==
    /\ stage = "err"
    /\ err = "failed to fill whole buffer"
    /\ pc > 0
    /\ pc + 1 < Len(code.instrs)
    /\ At(code.instrs, pc) = GETCHAR
    /\ nread = Len(stdin)
    /\ stdout # <<>>

---------------------------------------------------------------------------
(* C11: a program whose compilation fails with the unmatched-loop-end error *)
(* executes no instruction, writes no byte and reads no byte, also when     *)
(* output or input opcodes precede the offending loop-end.                  *)
C11_CompileErrorBeforeExecution ==
    /\ HasUnmatchedRB(data) =>
          /\ stage \notin {"run", "ok", "panic"}
          /\ code = NoCode
          /\ stdout = <<>>
          /\ nread = 0
          /\ pc = 0
          /\ ps = 0
          /\ stack = <<0>>
    /\ (stage = "err" /\ err = "pop from empty list") =>
          /\ HasUnmatchedRB(data)
          /\ ~ENABLED Next

\* compilation has failed after an output and an input opcode, with a byte
\* waiting on stdin
C11_Witness ==
    /\ stage = "err"
    /\ err = "pop from empty list"
    /\ \E k \in 1..(di - 1) : data[k] = "PUTCHAR"
    /\ \E k \in 1..(di - 1) : data[k] = "GETCHAR"
    /\ stdin # <<>>

---------------------------------------------------------------------------
(* C12: the bytes on stdout are, in order, one per executed Output          *)
(* instruction, each the value of the current cell when that instruction    *)
(* executed; no other step writes, and no byte already written is moved,    *)
(* dropped, repeated or altered.  An Output met with the pointer outside    *)
(* the tape has no current cell: the index panics before the write.         *)
C12_OutputStep ==
    LET output == /\ stage = "run"
                  /\ pc < Len(code.instrs)
                  /\ At(code.instrs, pc).op = "PUTCHAR"
                  /\ InBounds(ps, stack)
    IN  IF output
        THEN stdout' = stdout \o <<stack[ps + 1]>>
        ELSE stdout' = stdout

C12_OutputIsCellPerOutput == [][C12_OutputStep]_vars

\* a finished run that wrote two different bytes, the second after the first
C12_Witness ==
    /\ stage = "ok"
    /\ Len(stdout) >= 2
    /\ stdout[1] # stdout[2]

---------------------------------------------------------------------------
(* C13: for a matched loop with its JIZ at index i and its JNZ at index j,  *)
(* a JIZ executed on a zero cell is followed by the instruction at j + 1    *)
(* (the run ends when j + 1 is the list length) and on a non-zero cell by   *)
(* the one at i + 1; a JNZ executed on a non-zero cell is followed by the   *)
(* one at i + 1, not by the JIZ again, and on a zero cell by the one at     *)
(* j + 1.  A jump changes nothing but the program counter.                  *)
C13_JumpStep ==
    LET is  == code.instrs
        n   == Len(is)
    IN  (stage = "run" /\ pc < n /\ InBounds(ps, stack)) =>
          LET cur  == At(is, pc)
              cell == stack[ps + 1]
          IN  /\ \A j \in (pc + 1)..(n - 1) :
                   (cur = JIZ(j) /\ At(is, j) = JNZ(pc)) =>
                      /\ cell = 0 => pc' = j + 1
                      /\ cell # 0 => pc' = pc + 1
                      /\ UNCHANGED <<stage, ps, stack, nread, stdout>>
              /\ \A i \in 0..(pc - 1) :
                   (cur = JNZ(i) /\ At(is, i) = JIZ(pc)) =>
                      /\ cell # 0 => pc' = i + 1
                      /\ cell = 0 => pc' = pc + 1
                      /\ UNCHANGED <<stage, ps, stack, nread, stdout>>

\* with the program counter at the list length the only step is the end of
\* the run
C13_PastLastEndsRun ==
    (stage = "run" /\ pc = Len(code.instrs)) =>
        (ENABLED RunBreak /\ ~ENABLED (Next /\ stage' # "ok"))

C13_JumpLanding == [][C13_JumpStep]_vars /\ []C13_PastLastEndsRun

\* `++[-.]` after its JNZ was executed on the cell value 1: the body's first
\* instruction is next, and the JIZ at 1 is not executed again
C13_Witness ==
    /\ stage = "run"
    /\ code.instrs = <<ADD(2), JIZ(4), SUB(1), PUTCHAR, JNZ(1)>>
    /\ pc = 2
    /\ stack = <<1>>
    /\ stdout = <<1>>

---------------------------------------------------------------------------
\* the opcodes that Code::from folds
Foldable == {"SHR", "SHL", "ADD", "SUB"}

\* the positions of d[1..n] that begin a block: an opcode that is not folded,
\* or one that differs from the opcode just before it
BlockStarts(d, n) ==
    {k \in 1..n : k = 1 \/ d[k] \notin Foldable \/ d[k] # d[k - 1]}

\* the length of the block of d[1..n] that begins at k
BlockLen(d, n, k) ==
    LET later == {s \in BlockStarts(d, n) : s > k}
    IN  IF later = {}
        THEN n + 1 - k
        ELSE (CHOOSE s \in later : \A t \in later : s <= t) - k

\* the instruction variant emitted for an opcode
VariantOf(o) == CASE o = "LB" -> "JIZ" [] o = "RB" -> "JNZ" [] OTHER -> o

\* the list being built, or the list returned
CurrentList == IF stage = "compile" THEN instrs ELSE code.instrs

(* C14: folding merges an opcode only into the most recently emitted        *)
(* instruction, and only when that one has the same variant: the list is    *)
(* the sequence of blocks of the opcodes read so far, so `> + >` compiles   *)
(* to SHR(1), ADD(1), SHR(1), every output and input opcode is one          *)
(* instruction, and no two adjacent instructions have the same move /       *)
(* increment / decrement variant.                                           *)
C14_FoldsOnlyIntoLast ==
    (stage = "compile" \/ code.some) =>
      LET L      == CurrentList
          n      == di - 1
          starts == BlockStarts(data, n)
      IN  /\ Len(L) = Cardinality(starts)
          /\ \A k \in starts :
                LET m   == Cardinality({s \in starts : s <= k})
                    len == BlockLen(data, n, k)
                IN  /\ L[m].op = VariantOf(data[k])
                    /\ data[k] \in {"SHR", "SHL"} => L[m].x = len
                    /\ data[k] \in {"ADD", "SUB"} => L[m].x = len % U8
          /\ \A m \in 1..(Len(L) - 1) :
                L[m].op \in Foldable => L[m + 1].op # L[m].op
          /\ \A o \in {"PUTCHAR", "GETCHAR"} :
                Cardinality({m \in 1..Len(L) : L[m].op = o})
                    = Cardinality({k \in 1..n : data[k] = o})
          /\ (data = <<"SHR", "ADD", "SHR">> /\ code.some) =>
                code.instrs = <<SHR(1), ADD(1), SHR(1)>>

\* `> + >` compiled: the second `>` was not merged into the first
C14_Witness ==
    /\ data = <<"SHR", "ADD", "SHR">>
    /\ code.some
    /\ code.instrs = <<SHR(1), ADD(1), SHR(1)>>

---------------------------------------------------------------------------
\* the loop-start at position k of d is never closed
IsOpen(d, k) == \A j \in k..Len(d) : Depth(d, j) > Depth(d, k - 1)

(* C15: the unmatched loop-end is the only compile error.  Code::from       *)
(* returns Ok for every opcode sequence none of whose prefixes has more     *)
(* loop-ends than loop-starts, also when loop-starts are left open at the   *)
(* end; each open loop-start is accepted without a diagnostic and its JIZ   *)
(* keeps the placeholder target 0.                                          *)
C15_OnlyUnmatchedLoopEndFails ==
    ~HasUnmatchedRB(data) =>
       /\ ~(stage = "err" /\ err = "pop from empty list")
       /\ ~(stage = "panic" /\ err = "unreachable")
       /\ stage = "compile" => (code = NoCode /\ ENABLED Compile)
       /\ stage # "compile" => code.some
       /\ code.some =>
             \A k \in 1..Len(data) :
                (data[k] = "LB" /\ IsOpen(data, k)) =>
                    At(code.instrs, JumpOf(data, code.instrs, k)) = JIZ(0)

\* a returned list with a placeholder JIZ(0) that is not at index 0
C15_Witness ==
    /\ code.some
    /\ ~Balanced(data)
    /\ \E i \in 1..(Len(code.instrs) - 1) : At(code.instrs, i) = JIZ(0)

---------------------------------------------------------------------------
(* C16: in every instruction list that Code::from returns, hence in every   *)
(* state of the execution, each JIZ at index i has a JNZ at an index j > i  *)
(* whose target is i, and the JIZ's target is that j: no JIZ is executed    *)
(* with the placeholder target still in it.                                 *)
C16_EveryJizResolved ==
    code.some =>
       \A i \in 0..(Len(code.instrs) - 1) :
          At(code.instrs, i).op = "JIZ" =>
             LET j == At(code.instrs, i).x
             IN  /\ j > i
                 /\ j < Len(code.instrs)
                 /\ At(code.instrs, j) = JNZ(i)

\* what the code guarantees instead: a JIZ is either paired as above or is
\* the JIZ(0) of a loop-start that was never closed
C16_JizResolvedOrPlaceholder ==
    code.some =>
       \A i \in 0..(Len(code.instrs) - 1) :
          At(code.instrs, i).op = "JIZ" =>
             LET j == At(code.instrs, i).x
             IN  \/ j > i /\ j < Len(code.instrs) /\ At(code.instrs, j) = JNZ(i)
                 \/ j = 0 /\ ~Balanced(data)

---------------------------------------------------------------------------
\* before the loop starts and in every state of it, the interpreter's
\* variables have their starting values or the program counter is in range
C17_PcInRange ==
    /\ stage = "compile" => (pc = 0 /\ ps = 0 /\ stack = <<0>>)
    /\ stage # "compile" => (0 <= pc /\ pc <= Len(code.instrs))

\* the run ends normally when, and only when, pc >= the list length
C17_EndsAtListLength ==
    stage = "run" =>
       IF pc >= Len(code.instrs)
       THEN ENABLED RunBreak /\ ~ENABLED (Next /\ stage' # "ok")
       ELSE ~ENABLED RunBreak

C17_LoopStep ==
    /\ (stage = "compile" /\ stage' = "run") =>
          (pc' = 0 /\ ps' = 0 /\ stack' = <<0>>)
    /\ (stage = "run" /\ stage' = "run") =>
          /\ pc < Len(code.instrs)
          /\ code' = code
          /\ LET cur == At(code.instrs, pc)
             IN  \/ pc' = pc + 1
                 \/ cur.op \in {"JIZ", "JNZ"} /\ pc' = cur.x + 1
    /\ (stage = "run" /\ stage' = "ok") =>
          /\ pc >= Len(code.instrs)
          /\ UNCHANGED <<pc, ps, stack, nread, stdout, err>>

(* C17: the interpreter starts with pc 0, pointer 0 and a tape of one zero  *)
(* cell; each iteration executes the instruction at pc and then adds 1 to   *)
(* pc (after a taken jump has set it to the target); the run ends normally  *)
(* exactly when pc >= the list length; pc never exceeds the list length.    *)
C17_FetchExecuteLoop ==
    /\ []C17_PcInRange
    /\ []C17_EndsAtListLength
    /\ [][C17_LoopStep]_vars

\* a run with a loop that wrote a byte and ended with pc at the list length
C17_Witness ==
    /\ stage = "ok"
    /\ pc = Len(code.instrs)
    /\ \E i \in 1..Len(code.instrs) : code.instrs[i].op = "JNZ"
    /\ stdout # <<>>

---------------------------------------------------------------------------
(* C18: in every reachable state of every run the data pointer is an index  *)
(* of the tape, 0 <= pointer < tape length: no instruction reads or writes  *)
(* a cell outside the tape and no pointer arithmetic underflows.            *)
C18_PointerInTape ==
    /\ InBounds(ps, stack)
    /\ ~(stage = "panic" /\ err \in {"index out of bounds",
                                     "attempt to subtract with overflow",
                                     "capacity overflow"})

\* the same, for runs in which no SHL(x) is executed with 0 < ps < x
C18_PointerInTapeUnlessShlUnderflow ==
    [][ ~(Executing("SHL") /\ ps # 0 /\ SubOverflows(ps, Arg))
            => (InBounds(ps, stack) => InBounds(ps', stack')) ]_vars

---------------------------------------------------------------------------
(* Interpreter::run as a function: the loop of lines 94-135 applied to a    *)
(* configuration record, for executing a list other than the one in `code`  *)

\* how many iterations of the loop the function form follows
MaxSteps == 300

\* lines 84 and 90-92; `underflow` records that line 99 was evaluated with
\* 0 < ps < x
Config0 ==
    [pc |-> 0, ps |-> 0, stack |-> <<0>>, nread |-> 0, stdout |-> <<>>,
     stage |-> "run", err |-> "", underflow |-> FALSE]

\* one iteration of the loop on the list `is` with input stream `in`; the
\* stage "cut" marks an iteration that the bounds MaxTape and MaxOut leave out
StepCfg(is, in, oc, c) ==
    IF c.pc >= Len(is)
    THEN [c EXCEPT !.stage = "ok"]
    ELSE
      LET i          == At(is, c.pc)
          inb        == InBounds(c.ps, c.stack)
          next       == [c EXCEPT !.pc = c.pc + 1]
          panic(msg) == [c EXCEPT !.stage = "panic", !.err = msg]
          oob        == panic("index out of bounds")
      IN  CASE i.op = "SHL" ->
                 IF c.ps # 0 /\ SubOverflows(c.ps, i.x)
                 THEN IF oc
                      THEN [panic("attempt to subtract with overflow")
                               EXCEPT !.underflow = TRUE]
                      ELSE [next EXCEPT !.ps = ShlValue(c.ps, i.x),
                                        !.underflow = TRUE]
                 ELSE [next EXCEPT !.ps = ShlValue(c.ps, i.x)]
            [] i.op = "SHR" ->
                 IF c.ps + i.x < 0
                 THEN panic("capacity overflow")
                 ELSE IF c.ps + i.x >= MaxTape
                 THEN [c EXCEPT !.stage = "cut"]
                 ELSE [next EXCEPT !.ps = c.ps + i.x,
                                   !.stack = Grow(c.stack, c.ps + i.x)]
            [] i.op = "ADD" ->
                 IF inb
                 THEN [next EXCEPT !.stack = SetCell(c.ps, c.stack,
                           OverflowingAdd(Cell(c.ps, c.stack), i.x))]
                 ELSE oob
            [] i.op = "SUB" ->
                 IF inb
                 THEN [next EXCEPT !.stack = SetCell(c.ps, c.stack,
                           OverflowingSub(Cell(c.ps, c.stack), i.x))]
                 ELSE oob
            [] i.op = "PUTCHAR" ->
                 IF ~inb
                 THEN oob
                 ELSE IF Len(c.stdout) >= MaxOut
                 THEN [c EXCEPT !.stage = "cut"]
                 ELSE [next EXCEPT !.stdout = Append(c.stdout, Cell(c.ps, c.stack))]
            [] i.op = "GETCHAR" ->
                 IF c.nread >= Len(in)
                 THEN [c EXCEPT !.stage = "err",
                                !.err = "failed to fill whole buffer"]
                 ELSE IF inb
                 THEN [next EXCEPT !.nread = c.nread + 1,
                                   !.stack = SetCell(c.ps, c.stack, in[c.nread + 1])]
                 ELSE [oob EXCEPT !.nread = c.nread + 1]
            [] i.op = "JIZ" ->
                 IF inb
                 THEN [c EXCEPT !.pc = JizNext(Cell(c.ps, c.stack), i.x, c.pc)]
                 ELSE oob
            [] i.op = "JNZ" ->
                 IF inb
                 THEN [c EXCEPT !.pc = JnzNext(Cell(c.ps, c.stack), i.x, c.pc)]
                 ELSE oob

RECURSIVE ExecFrom(_, _, _, _, _)
\* the loop, followed for at most n iterations
ExecFrom(is, in, oc, c, n) ==
    IF n = 0 \/ c.stage # "run"
    THEN c
    ELSE LET d == StepCfg(is, in, oc, c)
         IN  ExecFrom(is, in, oc, d, n - 1)

Exec(is, in, oc) == ExecFrom(is, in, oc, Config0, MaxSteps)

\* the run was followed to its end
Finished(c) == c.stage \in {"ok", "err", "panic"}

\* what a run is observed by: output, tape, pointer and outcome
Observed(c) == <<c.stdout, c.stack, c.ps, c.stage, c.err>>

RECURSIVE UnfoldedFrom(_, _, _, _)
\* the list Code::from would build from d[k..] if no opcode were merged: one
\* instruction of count 1 per opcode, the jumps paired as at lines 58-70
UnfoldedFrom(d, k, is, js) ==
    IF k > Len(d)
    THEN is
    ELSE CASE d[k] = "SHR"     -> UnfoldedFrom(d, k + 1, Append(is, SHR(1)), js)
           [] d[k] = "SHL"     -> UnfoldedFrom(d, k + 1, Append(is, SHL(1)), js)
           [] d[k] = "ADD"     -> UnfoldedFrom(d, k + 1, Append(is, ADD(1)), js)
           [] d[k] = "SUB"     -> UnfoldedFrom(d, k + 1, Append(is, SUB(1)), js)
           [] d[k] = "PUTCHAR" -> UnfoldedFrom(d, k + 1, Append(is, PUTCHAR), js)
           [] d[k] = "GETCHAR" -> UnfoldedFrom(d, k + 1, Append(is, GETCHAR), js)
           [] d[k] = "LB"      ->
                UnfoldedFrom(d, k + 1, Append(is, JIZ(0)), Append(js, Len(is)))
           [] d[k] = "RB"      ->
                UnfoldedFrom(d, k + 1, CloseLoop(is, js[Len(js)]),
                             SubSeq(js, 1, Len(js) - 1))

\* defined for the sequences that compile (no unmatched loop-end)
UnfoldedList(d) == UnfoldedFrom(d, 1, <<>>, <<>>)

\* the run of the compiled list has ended
RunEnded == code.some /\ stage \in {"ok", "err", "panic"}

\* the function form of the loop agrees with the actions: applied to the
\* compiled list it ends in the state the run ended in
ExecAgreesWithRun ==
    RunEnded =>
       LET f == Exec(code.instrs, stdin, overflow_checks)
       IN  Finished(f) => Observed(f) = <<stdout, stack, ps, stage, err>>

(* C19: folding preserves the semantics of every instruction kind: for      *)
(* every opcode sequence that compiles and every input stream, the run of   *)
(* the folded list ends with the same output, tape, pointer and outcome as  *)
(* the run of the unfolded list of one count-1 instruction per opcode.      *)
C19_FoldingPreservesSemantics ==
    RunEnded =>
       LET u == Exec(UnfoldedList(data), stdin, overflow_checks)
       IN  Finished(u) => Observed(u) = <<stdout, stack, ps, stage, err>>

\* the same for the runs of the folded list that never evaluate line 99 with
\* 0 < ps < x
C19_HoldsWithoutShlUnderflow ==
    RunEnded =>
       LET f == Exec(code.instrs, stdin, overflow_checks)
           u == Exec(UnfoldedList(data), stdin, overflow_checks)
       IN  (Finished(f) /\ Finished(u) /\ ~f.underflow) =>
               Observed(u) = <<stdout, stack, ps, stage, err>>

---------------------------------------------------------------------------
\* the variant of the instruction about to be executed; "END" past the list
CurrentOp ==
    IF pc < Len(code.instrs) THEN At(code.instrs, pc).op ELSE "END"

C20_FrameStep ==
    stage = "run" =>
       LET op == CurrentOp
       IN  /\ code' = code
           /\ Len(stack') >= Len(stack)
           /\ Len(stack') # Len(stack) => op = "SHR"
           /\ op = "SHR" => SubSeq(stack', 1, Len(stack)) = stack
           /\ op \in {"SHL", "PUTCHAR", "JIZ", "JNZ", "END"} => stack' = stack
           /\ op \in {"ADD", "SUB", "GETCHAR"} =>
                 \A i \in 1..Len(stack) : i # ps + 1 => stack'[i] = stack[i]
           /\ ps' # ps => op \in {"SHR", "SHL"}

(* C20: during execution the instruction list is never modified; the tape   *)
(* length never decreases and changes only on a MoveRight; MoveLeft, Output *)
(* and the jumps leave the tape unchanged; Increment, Decrement and Input   *)
(* change no cell but the one under the pointer; only MoveRight and         *)
(* MoveLeft change the pointer.                                             *)
C20_FrameConditions == [][C20_FrameStep]_vars

\* a finished run that grew the tape and wrote the new cell, leaving cell 0
C20_Witness ==
    /\ stage = "ok"
    /\ ps = 1
    /\ stack = <<0, 1>>

====
